---- MODULE Spec2Model ----
(***************************************************************************)
(* DocumentIndexer of docs-mcp-server: the in-memory index (documents,     *)
(* keywords, categories, tags, tfidf, relationships), its asynchronous     *)
(* buildIndex() and its synchronous queries.                               *)
(*                                                                         *)
(* Strings are sequences of one-character strings, so that toLowerCase,    *)
(* includes, split and the tokenizer are computed and not assumed.         *)
(* A JavaScript Map is a sequence of entries in insertion order where the  *)
(* order is observable (documents, relationship sets) and a function where *)
(* it is not (keywords, categories, tags, tfidf).                          *)
(***************************************************************************)
EXTENDS Integers, Sequences, FiniteSets, TLC

VARIABLES
  disk,      \* the corpus on disk: root accessibility and the files
  index,     \* this.index, the object queries read and builds write
  calls,     \* the buildIndex() calls: position, file list, outcome, and
             \* (history) this.index as each call found it
  resp,      \* the last query answered and what it returned
  server     \* the DocsServer process: "new" once constructed, "starting"
             \* inside start(), "running" once connected, "exited"

vars == <<disk, index, calls, resp, server>>

------------------------------------------------------------------------------
(* Bounds *)

NumFiles == 2
MaxCalls == 2

------------------------------------------------------------------------------
(* Strings *)

LowerLetters ==
  {"a","b","c","d","e","f","g","h","i","j","k","l","m",
   "n","o","p","q","r","s","t","u","v","w","x","y","z"}
UpperLetters ==
  {"A","B","C","D","E","F","G","H","I","J","K","L","M",
   "N","O","P","Q","R","S","T","U","V","W","X","Y","Z"}
Digits == {"0","1","2","3","4","5","6","7","8","9"}

UpperSeq == <<"A","B","C","D","E","F","G","H","I","J","K","L","M",
              "N","O","P","Q","R","S","T","U","V","W","X","Y","Z">>
LowerSeq == <<"a","b","c","d","e","f","g","h","i","j","k","l","m",
              "n","o","p","q","r","s","t","u","v","w","x","y","z">>

LowerChar(c) ==
  IF c \in UpperLetters
    THEN LowerSeq[CHOOSE i \in 1..26 : UpperSeq[i] = c]
    ELSE c

UpperChar(c) ==
  IF c \in LowerLetters
    THEN UpperSeq[CHOOSE i \in 1..26 : LowerSeq[i] = c]
    ELSE c

\* String.prototype.toLowerCase
toLowerCase(s) == [i \in 1..Len(s) |-> LowerChar(s[i])]

\* String.prototype.includes
includes(hay, needle) ==
  \E i \in 0..(Len(hay) - Len(needle)) :
    SubSeq(hay, i + 1, i + Len(needle)) = needle

startsWith(s, p) == Len(s) >= Len(p) /\ SubSeq(s, 1, Len(p)) = p
endsWith(s, p) == Len(s) >= Len(p) /\ SubSeq(s, Len(s) - Len(p) + 1, Len(s)) = p

\* the elements of a finite set of integers, ascending
Ascending(S) ==
  [k \in 1..Cardinality(S) |->
     CHOOSE i \in S : Cardinality({j \in S : j <= i}) = k]

\* the least element of a non-empty set of integers
Least(S) == CHOOSE i \in S : \A j \in S : i <= j

\* String.prototype.split on a one-character separator
split(s, sep) ==
  LET cuts == <<0>> \o Ascending({i \in 1..Len(s) : s[i] = sep}) \o <<Len(s) + 1>>
  IN  [k \in 1..(Len(cuts) - 1) |-> SubSeq(s, cuts[k] + 1, cuts[k + 1] - 1)]

\* Array.prototype.join
RECURSIVE join(_, _)
join(parts, sep) ==
  IF parts = <<>> THEN <<>>
  ELSE IF Len(parts) = 1 THEN parts[1]
  ELSE parts[1] \o sep \o join(Tail(parts), sep)

\* Array.prototype.includes, on a sequence
Has(seq, x) == \E i \in 1..Len(seq) : seq[i] = x

\* Array.prototype.filter by membership in another sequence's elements
FilterIn(seq, keep) == SelectSeq(seq, LAMBDA x : x \in keep)

Range(seq) == {seq[i] : i \in 1..Len(seq)}

\* Set.prototype.add on a set kept in insertion order
SetAdd(seq, x) == IF Has(seq, x) THEN seq ELSE Append(seq, x)

\* natural.WordTokenizer: the maximal runs of [A-Za-z0-9_]
WordChars == LowerLetters \cup UpperLetters \cup Digits \cup {"_"}

tokenize(s) ==
  LET word(i) == s[i] \in WordChars
      starts == Ascending({i \in 1..Len(s) : word(i) /\ (i = 1 \/ ~word(i - 1))})
      endOf(i) == Least({j \in i..Len(s) : j = Len(s) \/ ~word(j + 1)})
  IN  [k \in 1..Len(starts) |-> SubSeq(s, starts[k], endOf(starts[k]))]

------------------------------------------------------------------------------
(* Paths *)

Slash == <<"/">>
DotMd == <<".","m","d">>

\* this.docsPath, an absolute directory
docsPath == <<"/","d">>

\* the non-empty segments of a path
Segs(p) == SelectSeq(split(p, "/"), LAMBDA x : x # <<>>)

RECURSIVE CommonLen(_, _)
CommonLen(f, t) ==
  IF f = <<>> \/ t = <<>> \/ Head(f) # Head(t) THEN 0
  ELSE 1 + CommonLen(Tail(f), Tail(t))

\* path.relative(from, to) on absolute paths
relative(from, to) ==
  LET f == Segs(from)
      t == Segs(to)
      k == CommonLen(f, t)
      ups == [i \in 1..(Len(f) - k) |-> <<".",".">>]
  IN  join(ups \o SubSeq(t, k + 1, Len(t)), Slash)

\* path.isAbsolute
isAbsolute(p) == Len(p) > 0 /\ p[1] = "/"

\* path.join(docsPath, rel): the absolute path of a corpus file
FullPath(rel) == docsPath \o Slash \o rel

getRelativePath(filePath) == relative(docsPath, filePath)

\* docPath.replace(/^\.\.?\//, '') drops one leading ./ or ../
normalizePath(docPath) ==
  IF isAbsolute(docPath) THEN getRelativePath(docPath)
  ELSE IF startsWith(docPath, <<".","/">>) THEN SubSeq(docPath, 3, Len(docPath))
  ELSE IF startsWith(docPath, <<".",".","/">>) THEN SubSeq(docPath, 4, Len(docPath))
  ELSE docPath

\* path.basename(filePath, '.md'), each dash-separated word capitalized
extractTitleFromPath(filePath) ==
  LET segs == Segs(filePath)
      last == segs[Len(segs)]
      base == IF endsWith(last, DotMd) /\ Len(last) > 3
                THEN SubSeq(last, 1, Len(last) - 3) ELSE last
      words == split(base, "-")
      cap(w) == IF w = <<>> THEN w ELSE <<UpperChar(w[1])>> \o Tail(w)
  IN  join([i \in 1..Len(words) |-> cap(words[i])], <<" ">>)

General == <<"g","e","n","e","r","a","l">>

extractCategoryFromPath(filePath) ==
  LET parts == split(getRelativePath(filePath), "/")
  IN  IF Len(parts) > 1 THEN parts[Len(parts) - 1] ELSE General

------------------------------------------------------------------------------
(* Body text *)

WhiteSpace == {" ", "\n", "\t"}

\* s without its longest prefix of characters of set C
DropWhile(s, C) ==
  LET other == {i \in 1..Len(s) : s[i] \notin C}
  IN  IF other = {} THEN <<>> ELSE SubSeq(s, Least(other), Len(s))

trimStart(s) == DropWhile(s, WhiteSpace)
trimEnd(s) ==
  LET other == {i \in 1..Len(s) : s[i] \notin WhiteSpace}
  IN  IF other = {} THEN <<>>
      ELSE SubSeq(s, 1, CHOOSE i \in other : \A j \in other : j <= i)
trim(s) == trimEnd(trimStart(s))

dropHashes(s) == DropWhile(s, {"#"})

\* para.replace(/^#+\s+/, '')
stripHeading(s) ==
  LET r == dropHashes(s)
  IN  IF s # <<>> /\ Head(s) = "#" /\ r # <<>> /\ Head(r) \in WhiteSpace
        THEN trimStart(r) ELSE s

\* content.split('\n\n'): cut at the first blank line, then split the rest
RECURSIVE splitParagraphs(_)
splitParagraphs(s) ==
  LET breaks == {i \in 1..(Len(s) - 1) : s[i] = "\n" /\ s[i + 1] = "\n"}
  IN  IF breaks = {} THEN <<s>>
      ELSE <<SubSeq(s, 1, Least(breaks) - 1)>>
             \o splitParagraphs(SubSeq(s, Least(breaks) + 2, Len(s)))

MinParagraph == 20
MaxSummary == 200

RECURSIVE firstLong(_)
firstLong(paras) ==
  IF paras = <<>> THEN <<>>
  ELSE LET cleaned == stripHeading(trim(Head(paras)))
       IN  IF Len(cleaned) > MinParagraph
             THEN SubSeq(cleaned, 1, IF Len(cleaned) < MaxSummary
                                       THEN Len(cleaned) ELSE MaxSummary)
             ELSE firstLong(Tail(paras))

extractFirstParagraph(content) == firstLong(splitParagraphs(content))

\* the first index >= from at which s holds c, or 0
indexOf(s, c, from) ==
  LET at == {i \in from..Len(s) : s[i] = c}
  IN  IF at = {} THEN 0 ELSE Least(at)

\* the targets matched by /\[([^\]]+)\]\(([^)]+\.md)\)/g, in order
RECURSIVE linkTargets(_, _)
linkTargets(s, from) ==
  LET i == indexOf(s, "[", from)
      j == IF i = 0 THEN 0 ELSE indexOf(s, "]", i + 1)
      k == IF j = 0 THEN 0 ELSE indexOf(s, ")", j + 2)
      t == IF k = 0 THEN <<>> ELSE SubSeq(s, j + 2, k - 1)
      hit == /\ i # 0 /\ j > i + 1 /\ j + 1 <= Len(s) /\ s[j + 1] = "("
             /\ k # 0 /\ Len(t) > 3 /\ endsWith(t, DotMd)
  IN  IF i = 0 THEN <<>>
      ELSE IF hit THEN <<t>> \o linkTargets(s, k + 1)
      ELSE linkTargets(s, i + 1)

------------------------------------------------------------------------------
(* Frontmatter values, as gray-matter hands them over.  A value is absent  *)
(* (the key is not in parsed.data), null, a string, a number or a list of  *)
(* strings; s holds a string's characters and l a list's elements.         *)

Absent == [k |-> "absent", s |-> <<>>, l |-> <<>>]
Null == [k |-> "null", s |-> <<>>, l |-> <<>>]
Num == [k |-> "num", s |-> <<>>, l |-> <<>>]
Str(x) == [k |-> "str", s |-> x, l |-> <<>>]
List(x) == [k |-> "list", s |-> <<>>, l |-> x]

\* ToBoolean: an array is truthy even when empty, the number modelled is not 0
Truthy(v) ==
  CASE v.k = "str" -> v.s # <<>>
    [] v.k = "list" -> TRUE
    [] v.k = "num" -> TRUE
    [] OTHER -> FALSE

isArray(v) == v.k = "list"

\* whether v[Symbol.iterator] exists: for...of over anything else throws
Iterable(v) == v.k \in {"str", "list"}

\* the values for...of yields: the elements of a list, the characters of a string
Elements(v) ==
  IF v.k = "list" THEN v.l
  ELSE IF v.k = "str" THEN [i \in 1..Len(v.s) |-> <<v.s[i]>>]
  ELSE <<>>

\* whether v.includes is a function (Array and String both have one)
HasIncludes(v) == v.k \in {"str", "list"}

\* v.includes(x): membership in an array, substring of a string
jsIncludes(v, x) ==
  IF v.k = "list" THEN Has(v.l, x)
  ELSE IF v.k = "str" THEN includes(v.s, x)
  ELSE FALSE

\* whether v is null or undefined, where ?. short-circuits
Nullish(v) == v.k \in {"absent", "null"}

------------------------------------------------------------------------------
(* indexDocument *)

\* the metadata literal: the defaulted fields, then ...parsed.data over them
MetadataOf(file) ==
  LET fm == file.fm
      filePath == FullPath(file.path)
      dflt == [title    |-> IF Truthy(fm.title) THEN fm.title
                            ELSE Str(extractTitleFromPath(filePath)),
               tags     |-> IF isArray(fm.tags) THEN fm.tags ELSE List(<<>>),
               category |-> IF Truthy(fm.category) THEN fm.category
                            ELSE Str(extractCategoryFromPath(filePath)),
               related  |-> IF isArray(fm.related) THEN fm.related ELSE List(<<>>),
               summary  |-> IF Truthy(fm.summary) THEN fm.summary
                            ELSE Str(extractFirstParagraph(file.body))]
  IN  [key \in DOMAIN dflt |->
         IF fm[key].k # "absent" THEN fm[key] ELSE dflt[key]]

\* `${v}` for the values modelled as title and summary
Text(v) ==
  CASE v.k = "str" -> v.s
    [] v.k = "null" -> <<"n","u","l","l">>
    [] v.k = "absent" -> <<"u","n","d","e","f","i","n","e","d">>
    [] v.k = "num" -> <<"5">>
    [] OTHER -> join(v.l, <<",">>)

\* `${doc.metadata.title} ${doc.metadata.summary} ${doc.content}`
DocText(doc) ==
  Text(doc.metadata.title) \o <<" ">> \o Text(doc.metadata.summary)
    \o <<" ">> \o doc.content

EmptyIndex ==
  [documents     |-> <<>>,
   keywords      |-> <<>>,
   categories    |-> <<>>,
   tags          |-> <<>>,
   tfidf         |-> <<>>,
   relationships |-> <<>>]

\* a Map from keys to Sets, as a function: m.get(key).add(path)
MapSetAdd(m, key, path) ==
  IF key \in DOMAIN m THEN [m EXCEPT ![key] = @ \cup {path}]
  ELSE m @@ (key :> {path})

\* Map.prototype.set on a Map whose entries carry their key in .path
DocSet(docs, doc) ==
  IF \E i \in 1..Len(docs) : docs[i].path = doc.path
    THEN [i \in 1..Len(docs) |-> IF docs[i].path = doc.path THEN doc ELSE docs[i]]
    ELSE Append(docs, doc)

DocPaths(idx) == [i \in 1..Len(idx.documents) |-> idx.documents[i].path]
HasDoc(idx, p) == \E i \in 1..Len(idx.documents) : idx.documents[i].path = p
GetDoc(idx, p) == idx.documents[CHOOSE i \in 1..Len(idx.documents) :
                                  idx.documents[i].path = p]

MinTokenLen == 2

\* MapSetAdd for every key of a sequence
AddAll(m, keys, path) ==
  [k \in DOMAIN m \cup Range(keys) |->
     (IF k \in DOMAIN m THEN m[k] ELSE {})
       \cup (IF k \in Range(keys) THEN {path} ELSE {})]

indexKeywords(kw, doc) ==
  LET tokens == tokenize(toLowerCase(DocText(doc)))
  IN  AddAll(kw, SelectSeq(tokens, LAMBDA t : Len(t) > MinTokenLen), doc.path)

\* lines 83-122, what follows a successful read; a throw inside the try
\* block ends it where it is and keeps what was written before
indexContent(idx, file) ==
  LET metadata == MetadataOf(file)
      doc == [path |-> getRelativePath(FullPath(file.path)),
              content |-> file.body,
              metadata |-> metadata]
      i1 == [idx EXCEPT !.documents = DocSet(@, doc),
                        !.keywords = indexKeywords(@, doc)]
      i2 == IF Truthy(metadata.category)
              THEN [i1 EXCEPT !.categories =
                      MapSetAdd(@, metadata.category.s, doc.path)]
              ELSE i1
  IN  IF Truthy(metadata.tags) /\ Iterable(metadata.tags)
        THEN [i2 EXCEPT !.tags = AddAll(@, Elements(metadata.tags), doc.path)]
        ELSE i2

\* indexDocument losing what earlier files contributed when a read fails
indexDocumentLosingIndex(idx, file) ==
  IF ~file.readable THEN EmptyIndex ELSE indexContent(idx, file)

\* indexDocument: a failed read is caught and leaves the index as it was
indexDocument(idx, file) ==
  IF ~file.readable THEN idx ELSE indexContent(idx, file)

------------------------------------------------------------------------------
(* buildTfIdfIndex: natural.TfIdf over the documents in Map order *)

\* the entries of natural's stopword list that the corpus texts can produce:
\* the single letters, digits and underscore, and a few short words
Stopwords ==
  {<<c>> : c \in LowerLetters \cup Digits \cup {"_"}}
    \cup {<<"t","h","e">>, <<"s","e","e">>, <<"t","o">>, <<"f","o","r">>,
          <<"a","n","d">>, <<"o","f">>}

\* TfIdf.addDocument: lowercase, tokenize, drop the stopwords
Terms(doc) ==
  SelectSeq(tokenize(toLowerCase(DocText(doc))), LAMBDA t : t \notin Stopwords)

Count(seq, x) == Cardinality({i \in 1..Len(seq) : seq[i] = x})

\* 1000 * (1 + ln(N / (1 + df))), rounded, for 1 <= df <= N <= 4
IdfTable ==
  << <<307>>,
     <<1000, 595>>,
     <<1405, 1000, 712>>,
     <<1693, 1288, 1000, 777>> >>

\* the weight listTerms gives a term of document d: tf * idf
TfIdfOf(docs, d) ==
  LET terms == Terms(docs[d])
      df(t) == Cardinality({e \in 1..Len(docs) : Has(Terms(docs[e]), t)})
  IN  [t \in Range(terms) |-> Count(terms, t) * IdfTable[Len(docs)][df(t)]]

buildTfIdfIndex(idx) ==
  LET docs == idx.documents
      fresh == [p \in Range(DocPaths(idx)) |->
                  TfIdfOf(docs, CHOOSE d \in 1..Len(docs) : docs[d].path = p)]
  IN  [idx EXCEPT !.tfidf =
         [p \in DOMAIN idx.tfidf \cup DOMAIN fresh |->
            IF p \in DOMAIN fresh THEN fresh[p] ELSE idx.tfidf[p]]]

------------------------------------------------------------------------------
(* buildRelationships *)

MinSharedTags == 2

\* doc.metadata.tags?.filter(tag => otherDoc.metadata.tags?.includes(tag)) || []
sharedTags(doc, otherDoc) ==
  IF Nullish(doc.metadata.tags) THEN <<>>
  ELSE FilterIn(doc.metadata.tags.l,
                {t \in Range(doc.metadata.tags.l) :
                   jsIncludes(otherDoc.metadata.tags, t)})

\* whether computing sharedTags(doc, otherDoc) throws a TypeError: .filter
\* exists on arrays only, and the callback calls .includes on the other
\* document's tags once per tag of doc
sharedTagsThrows(doc, otherDoc) ==
  /\ ~Nullish(doc.metadata.tags)
  /\ \/ ~isArray(doc.metadata.tags)
     \/ /\ doc.metadata.tags.l # <<>>
        /\ ~Nullish(otherDoc.metadata.tags)
        /\ ~HasIncludes(otherDoc.metadata.tags)

\* AddExisting without the documents.has test
RECURSIVE AddExistingUnchecked(_, _, _)
AddExistingUnchecked(idx, related, targets) ==
  IF targets = <<>> THEN related
  ELSE AddExistingUnchecked(idx, SetAdd(related, normalizePath(Head(targets))),
                            Tail(targets))

\* related.add(normalizedRel) for each target that is a key of documents
RECURSIVE AddExisting(_, _, _)
AddExisting(idx, related, targets) ==
  IF targets = <<>> THEN related
  ELSE LET n == normalizePath(Head(targets))
       IN  AddExisting(idx, IF HasDoc(idx, n) THEN SetAdd(related, n) ELSE related,
                       Tail(targets))

\* sameCategory comparing the category with the other document's title
sameCategoryWrongField(doc, otherDoc) ==
  Truthy(doc.metadata.category)
    /\ doc.metadata.category = otherDoc.metadata.title

sameCategory(doc, otherDoc) ==
  Truthy(doc.metadata.category)
    /\ doc.metadata.category = otherDoc.metadata.category

RECURSIVE AddImplicit(_, _, _)
AddImplicit(doc, related, others) ==
  IF others = <<>> THEN related
  ELSE LET otherDoc == Head(others)
           r1 == IF sameCategory(doc, otherDoc)
                   THEN SetAdd(related, otherDoc.path) ELSE related
           r2 == IF Len(sharedTags(doc, otherDoc)) >= MinSharedTags
                   THEN SetAdd(r1, otherDoc.path) ELSE r1
       IN  IF otherDoc.path = doc.path
             THEN AddImplicit(doc, related, Tail(others))
             ELSE AddImplicit(doc, r2, Tail(others))

\* the Set one iteration of the outer loop builds for doc
relatedOf(idx, doc) ==
  LET explicit == IF Truthy(doc.metadata.related)
                    THEN AddExisting(idx, <<>>, Elements(doc.metadata.related))
                    ELSE <<>>
      implicit == AddImplicit(doc, explicit, idx.documents)
  IN  AddExisting(idx, implicit, linkTargets(doc.content, 1))

\* whether that iteration throws before relationships.set
relatedThrows(idx, doc) ==
  \/ Truthy(doc.metadata.related) /\ ~Iterable(doc.metadata.related)
  \/ \E i \in 1..Len(idx.documents) :
       /\ idx.documents[i].path # doc.path
       /\ sharedTagsThrows(doc, idx.documents[i])

\* the outer loop from document d on: [idx, threw]
RECURSIVE relationshipsFrom(_, _)
relationshipsFrom(idx, d) ==
  IF d > Len(idx.documents) THEN [idx |-> idx, threw |-> FALSE]
  ELSE LET doc == idx.documents[d]
       IN  IF relatedThrows(idx, doc) THEN [idx |-> idx, threw |-> TRUE]
           ELSE relationshipsFrom(
                  [idx EXCEPT !.relationships =
                     IF doc.path \in DOMAIN @
                       THEN [@ EXCEPT ![doc.path] = relatedOf(idx, doc)]
                       ELSE @ @@ (doc.path :> relatedOf(idx, doc))],
                  d + 1)

buildRelationships(idx) == relationshipsFrom(idx, 1)

------------------------------------------------------------------------------
(* Queries *)

KeywordBonus == 1
TitleBonus == 5
TagBonus == 3

\* scores are kept in thousandths, the unit of IdfTable
Units(n) == n * 1000

\* InsertDesc as an unstable sort would place an entry: ahead of its equals
RECURSIVE InsertDescAheadOfEquals(_, _)
InsertDescAheadOfEquals(sorted, e) ==
  IF sorted = <<>> THEN <<e>>
  ELSE IF Head(sorted).score > e.score
    THEN <<Head(sorted)>> \o InsertDescAheadOfEquals(Tail(sorted), e)
    ELSE <<e>> \o sorted

\* Array.prototype.sort((a, b) => b[1] - a[1]): stable, descending by score
RECURSIVE InsertDesc(_, _)
InsertDesc(sorted, e) ==
  IF sorted = <<>> THEN <<e>>
  ELSE IF Head(sorted).score >= e.score
    THEN <<Head(sorted)>> \o InsertDesc(Tail(sorted), e)
    ELSE <<e>> \o sorted

RECURSIVE SortDescFrom(_, _)
SortDescFrom(sorted, rest) ==
  IF rest = <<>> THEN sorted
  ELSE SortDescFrom(InsertDesc(sorted, Head(rest)), Tail(rest))
sortByScore(entries) == SortDescFrom(<<>>, entries)

\* passesCategory with the category test left out
passesCategoryUnfiltered(doc, category) == TRUE

\* the category filter lets the document through
passesCategory(doc, category) ==
  ~(Truthy(category) /\ doc.metadata.category # category)

\* passesTags with tags.some in place of tags.every
passesTagsAny(doc, tags) ==
  ~(Truthy(tags) /\ Len(tags.l) > 0)
    \/ \E i \in 1..Len(tags.l) : jsIncludes(doc.metadata.tags, tags.l[i])

\* tags.every(tag => doc.metadata.tags?.includes(tag)), when tags are given
passesTags(doc, tags) ==
  ~(Truthy(tags) /\ Len(tags.l) > 0)
    \/ \A i \in 1..Len(tags.l) : jsIncludes(doc.metadata.tags, tags.l[i])

\* the filter calls .includes on tags that have none
tagFilterThrows(doc, tags) ==
  /\ Truthy(tags) /\ Len(tags.l) > 0
  /\ ~Nullish(doc.metadata.tags) /\ ~HasIncludes(doc.metadata.tags)

\* the tag bonus calls .some, which only arrays have, once per query token
tagBonusThrows(doc, queryTokens) ==
  /\ queryTokens # <<>>
  /\ ~Nullish(doc.metadata.tags) /\ ~isArray(doc.metadata.tags)

\* SumSeq stopping after the first element
SumSeqOfHead(seq) == IF seq = <<>> THEN 0 ELSE Head(seq)

RECURSIVE SumSeq(_)
SumSeq(seq) == IF seq = <<>> THEN 0 ELSE Head(seq) + SumSeq(Tail(seq))

\* the four loops over queryTokens that accumulate one document's score
scoreOf(idx, doc, queryTokens) ==
  LET n == Len(queryTokens)
      keyword == [i \in 1..n |->
        IF queryTokens[i] \in DOMAIN idx.keywords
             /\ doc.path \in idx.keywords[queryTokens[i]]
          THEN Units(KeywordBonus) ELSE 0]
      weights == IF doc.path \in DOMAIN idx.tfidf THEN idx.tfidf[doc.path] ELSE <<>>
      tfidf == [i \in 1..n |->
        IF doc.path \in DOMAIN idx.tfidf /\ queryTokens[i] \in DOMAIN weights
          THEN weights[queryTokens[i]] ELSE 0]
      titleLower == toLowerCase(Text(doc.metadata.title))
      title == [i \in 1..n |->
        IF includes(titleLower, queryTokens[i]) THEN Units(TitleBonus) ELSE 0]
      tagl == IF isArray(doc.metadata.tags) THEN doc.metadata.tags.l ELSE <<>>
      tag == [i \in 1..n |->
        IF \E j \in 1..Len(tagl) : includes(toLowerCase(tagl[j]), queryTokens[i])
          THEN Units(TagBonus) ELSE 0]
  IN  SumSeq(keyword) + SumSeq(tfidf) + SumSeq(title) + SumSeq(tag)

\* search(query, category, tags): [threw, out]
search(idx, query, category, tags) ==
  LET queryTokens == tokenize(toLowerCase(query))
      docs == idx.documents
      survivors == SelectSeq(docs, LAMBDA doc :
                     passesCategory(doc, category) /\ passesTags(doc, tags))
      threw == \E i \in 1..Len(docs) :
                 /\ passesCategory(docs[i], category)
                 /\ \/ tagFilterThrows(docs[i], tags)
                    \/ passesTags(docs[i], tags) /\ tagBonusThrows(docs[i], queryTokens)
      scored == [i \in 1..Len(survivors) |->
                   [path |-> survivors[i].path,
                    score |-> scoreOf(idx, survivors[i], queryTokens)]]
      kept == SelectSeq(scored, LAMBDA e : e.score > 0)
      sorted == sortByScore(kept)
  IN  IF threw THEN [threw |-> TRUE, scored |-> <<>>, out |-> <<>>]
      ELSE [threw |-> FALSE, scored |-> sorted,
            out |-> [i \in 1..Len(sorted) |-> sorted[i].path]]

CategoryBoost == 2
ExplicitBoost == 5

\* the score getRelatedDocuments gives neighbour relPath of docPath
relatedScore(idx, docPath, relPath) ==
  IF HasDoc(idx, relPath) /\ HasDoc(idx, docPath)
    THEN LET doc == GetDoc(idx, docPath)
             relDoc == GetDoc(idx, relPath)
         IN  1 + (IF doc.metadata.category = relDoc.metadata.category
                    THEN CategoryBoost ELSE 0)
               + Len(sharedTags(doc, relDoc))
               + (IF jsIncludes(doc.metadata.related, relPath)
                    THEN ExplicitBoost ELSE 0)
    ELSE 1

relatedScoreThrows(idx, docPath, relPath) ==
  /\ HasDoc(idx, relPath) /\ HasDoc(idx, docPath)
  /\ LET doc == GetDoc(idx, docPath)
         relDoc == GetDoc(idx, relPath)
     IN  \/ sharedTagsThrows(doc, relDoc)
         \/ ~Nullish(doc.metadata.related) /\ ~HasIncludes(doc.metadata.related)

\* slice0 keeping one entry more than limit
slice0OneMore(seq, limit) ==
  SubSeq(seq, 1, IF limit + 1 > Len(seq) THEN Len(seq) ELSE limit + 1)

\* Array.prototype.slice(0, limit)
slice0(seq, limit) ==
  LET end == IF limit < 0 THEN Len(seq) + limit ELSE limit
      e == IF end < 0 THEN 0 ELSE IF end > Len(seq) THEN Len(seq) ELSE end
  IN  SubSeq(seq, 1, e)

\* NoneRelated raising an error in place of the empty result
NoneRelatedThrows == [threw |-> TRUE, scored |-> <<>>, out |-> <<>>]

\* `return []` for an id without a relationship set or with an empty one
NoneRelated == [threw |-> FALSE, scored |-> <<>>, out |-> <<>>]

\* getRelatedDocuments(docPath, limit): [threw, out]
getRelatedDocuments(idx, docPath, limit) ==
  LET related == IF docPath \in DOMAIN idx.relationships
                   THEN idx.relationships[docPath] ELSE <<>>
      scored == [i \in 1..Len(related) |->
                   [path |-> related[i],
                    score |-> relatedScore(idx, docPath, related[i])]]
      sorted == slice0(sortByScore(scored), limit)
  IN  IF docPath \notin DOMAIN idx.relationships \/ Len(related) = 0
        THEN NoneRelated
      ELSE IF \E i \in 1..Len(related) : relatedScoreThrows(idx, docPath, related[i])
        THEN [threw |-> TRUE, scored |-> <<>>, out |-> <<>>]
        ELSE [threw |-> FALSE, scored |-> sorted,
              out |-> [i \in 1..Len(sorted) |-> sorted[i].path]]

\* getDocument(docPath): <<doc>>, or <<>> for undefined
getDocument(idx, docPath) ==
  IF HasDoc(idx, docPath) THEN <<GetDoc(idx, docPath)>> ELSE <<>>

\* the characters of the model in ascending order of their UTF-16 code unit
CodeOrder ==
  <<"\n", " ", "!", "#", "(", ")", ",", "-", ".", "/",
    "0", "1", "2", "3", "4", "5", "6", "7", "8", "9", "?">>
    \o UpperSeq \o <<"[", "]", "_">> \o LowerSeq

CodeOf(c) == CHOOSE i \in 1..Len(CodeOrder) : CodeOrder[i] = c

\* a < b as Array.prototype.sort() compares strings by default
LessString(a, b) ==
  \E i \in 1..Len(a) + 1 :
    /\ \A j \in 1..(i - 1) : j <= Len(b) /\ a[j] = b[j]
    /\ i <= Len(b)
    /\ i > Len(a) \/ CodeOf(a[i]) < CodeOf(b[i])

\* Array.from(keys).sort(): the strings of a set in ascending order
sortStrings(S) ==
  [k \in 1..Cardinality(S) |->
     CHOOSE x \in S : Cardinality({y \in S : y = x \/ LessString(y, x)}) = k]

getCategories(idx) == sortStrings(DOMAIN idx.categories)
getTags(idx) == sortStrings(DOMAIN idx.tags)

------------------------------------------------------------------------------
(* DocsServer: the tool handlers behind the try/catch of setupHandlers *)

\* the handler of get_document: [error, found]
get_document(idx, docPath) ==
  IF docPath = <<>> THEN [error |-> "required", found |-> <<>>]
  ELSE IF getDocument(idx, docPath) = <<>>
    THEN [error |-> "notfound", found |-> <<>>]
    ELSE [error |-> "none", found |-> getDocument(idx, docPath)]

\* getRelatedDocs without the lookup of the source document
getRelatedDocsWithoutLookup(idx, docPath, limit) ==
  LET r == getRelatedDocuments(idx, docPath, limit)
  IN  IF r.threw THEN [error |-> "thrown", out |-> <<>>]
      ELSE [error |-> "none", out |-> r.out]

\* the handler of get_related_docs: [error, out]
getRelatedDocs(idx, docPath, limit) ==
  IF docPath = <<>> THEN [error |-> "required", out |-> <<>>]
  ELSE IF getDocument(idx, docPath) = <<>>
    THEN [error |-> "notfound", out |-> <<>>]
    ELSE LET r == getRelatedDocuments(idx, docPath, limit)
         IN  IF r.threw THEN [error |-> "thrown", out |-> <<>>]
             ELSE [error |-> "none",
                   out |-> SelectSeq(r.out, LAMBDA p : getDocument(idx, p) # <<>>)]

\* the default of the tools' limit argument
DefaultLimit == 10

\* a request's limit argument: not given, or the number given
NoLimit == [given |-> FALSE, n |-> 0]
Limit(n) == [given |-> TRUE, n |-> n]

\* `limit: number = 10`: the default replaces an argument that is undefined
limitOrDefault(limit) == IF limit.given THEN limit.n ELSE DefaultLimit

\* the handler of search_docs: [error, out, total], out the paths of the
\* results and total the total_results reported
searchDocs(idx, query, category, tags, limit) ==
  IF query = <<>> THEN [error |-> "required", out |-> <<>>, total |-> 0]
  ELSE LET r == search(idx, query, category, tags)
           results == SelectSeq(slice0(r.out, limitOrDefault(limit)),
                                LAMBDA p : getDocument(idx, p) # <<>>)
       IN  IF r.threw THEN [error |-> "thrown", out |-> <<>>, total |-> 0]
           ELSE [error |-> "none", out |-> results, total |-> Len(results)]

\* the handler of list_categories: [out, total]
listCategories(idx) ==
  [out |-> getCategories(idx), total |-> Len(getCategories(idx))]

\* the handler of list_tags: [out, total]
listTags(idx) ==
  [out |-> getTags(idx), total |-> Len(getTags(idx))]

------------------------------------------------------------------------------
(* buildIndex, one action per stretch between two awaits *)

Calls == 1..MaxCalls

InProgress(c) == calls[c].pc \in {"finding", "indexing", "finishing"}
Finished(c) == calls[c].pc \in {"done", "failed"}
NoneInProgress == \A c \in Calls : ~InProgress(c)

NoResp ==
  [op |-> "none", query |-> <<>>, category |-> Absent, tags |-> Absent,
   id |-> <<>>, limit |-> 0, threw |-> FALSE, scored |-> <<>>, out |-> <<>>,
   error |-> "none", found |-> <<>>, total |-> 0]

\* the directory a file is in, relative to the root; <<>> for the root itself
DirOf(path) ==
  LET parts == split(path, "/")
  IN  IF Len(parts) > 1 THEN join(SubSeq(parts, 1, Len(parts) - 1), Slash)
      ELSE <<>>

\* findMarkdownFiles in a directory order that turns around once a
\* buildIndex() call has completed
findMarkdownFilesUnstable(d) ==
  IF ~d.rootOk THEN <<>>
  ELSE LET eligible == SelectSeq(d.files, LAMBDA f :
                         endsWith(f.path, DotMd) /\ DirOf(f.path) \notin d.denied)
           n == Len(eligible)
       IN  IF \E c \in 1..MaxCalls : calls[c].pc = "done"
             THEN [i \in 1..n |-> eligible[n + 1 - i].path]
             ELSE [i \in 1..n |-> eligible[i].path]

\* findMarkdownFiles(this.docsPath): a readdir error is caught where it
\* happens and the files found so far in that directory (none) are returned,
\* so an unreadable root yields no file and an unreadable subdirectory none
\* of its own
findMarkdownFiles(d) ==
  IF ~d.rootOk THEN <<>>
  ELSE LET eligible == SelectSeq(d.files, LAMBDA f :
                         endsWith(f.path, DotMd) /\ DirOf(f.path) \notin d.denied)
       IN  [i \in 1..Len(eligible) |-> eligible[i].path]

\* fs.readFile(filePath) as the disk stands
ReadFile(d, path) ==
  LET f == d.files[CHOOSE i \in 1..Len(d.files) : d.files[i].path = path]
  IN  [f EXCEPT !.readable = @ /\ d.rootOk]

\* buildTfIdfIndex(); buildRelationships(): [idx, threw]
finishBuild(idx) == buildRelationships(buildTfIdfIndex(idx))

\* lines 26-39: the index is replaced by an empty one, then the first await
StartBuild(c) ==
  /\ calls[c].pc = "idle"
  /\ \A b \in Calls : b < c => calls[b].pc # "idle"
  /\ index' = EmptyIndex
  /\ calls' = [calls EXCEPT ![c].pc = "finding", ![c].before = index,
                            ![c].overlapped = ~NoneInProgress]
  /\ resp' = NoResp
  /\ UNCHANGED <<disk, server>>

\* lines 39-43: the file list arrives; with no file the loop is skipped and
\* the call runs on to its end without another await
FindFiles(c) ==
  /\ calls[c].pc = "finding"
  /\ LET files == findMarkdownFiles(disk)
         fin == finishBuild(index)
     IN  IF files = <<>>
           THEN /\ index' = fin.idx
                /\ calls' = [calls EXCEPT
                     ![c].pc = IF fin.threw THEN "failed" ELSE "done",
                     ![c].rootFailed = ~disk.rootOk,
                     ![c].after = fin.idx]
           ELSE /\ index' = index
                /\ calls' = [calls EXCEPT ![c].pc = "indexing", ![c].files = files,
                                          ![c].pos = 1]
  /\ resp' = NoResp
  /\ UNCHANGED <<disk, server>>

\* lines 43-45 and 79-126: one file is read and indexed
IndexFile(c) ==
  /\ calls[c].pc = "indexing"
  /\ index' = indexDocument(index, ReadFile(disk, calls[c].files[calls[c].pos]))
  /\ calls' = [calls EXCEPT
       ![c].pos = @ + 1,
       ![c].skipped = IF ReadFile(disk, calls[c].files[calls[c].pos]).readable
                        THEN @ ELSE @ \cup {calls[c].files[calls[c].pos]},
       ![c].pc = IF calls[c].pos = Len(calls[c].files)
                   THEN "finishing" ELSE "indexing"]
  /\ resp' = NoResp
  /\ UNCHANGED <<disk, server>>

\* lines 47-53: after the last file
FinishBuild(c) ==
  /\ calls[c].pc = "finishing"
  /\ LET fin == finishBuild(index)
     IN  /\ index' = fin.idx
         /\ calls' = [calls EXCEPT ![c].pc = IF fin.threw THEN "failed" ELSE "done",
                                   ![c].after = fin.idx]
  /\ resp' = NoResp
  /\ UNCHANGED <<disk, server>>

\* the environment: the root directory becomes inaccessible, or accessible again
SetRoot(ok) ==
  /\ disk.rootOk # ok
  /\ disk' = [disk EXCEPT !.rootOk = ok]
  /\ resp' = NoResp
  /\ UNCHANGED <<index, calls, server>>

\* Search writing the query's tokens into the keyword index as it answers
SearchRecordingTokens(query, category, tags) ==
  /\ LET r == search(index, query, category, tags)
     IN  resp' = [NoResp EXCEPT !.op = "search", !.query = query,
                    !.category = category, !.tags = tags,
                    !.threw = r.threw, !.scored = r.scored, !.out = r.out]
  /\ index' = [index EXCEPT !.keywords =
                 AddAll(@, tokenize(toLowerCase(query)), query)]
  /\ UNCHANGED <<disk, calls, server>>

\* a caller runs search(query, category, tags) on this.index
Search(query, category, tags) ==
  /\ LET r == search(index, query, category, tags)
     IN  resp' = [NoResp EXCEPT !.op = "search", !.query = query,
                    !.category = category, !.tags = tags,
                    !.threw = r.threw, !.scored = r.scored, !.out = r.out]
  /\ UNCHANGED <<disk, index, calls, server>>

\* a caller runs getRelatedDocuments(id, limit) on this.index
Related(id, limit) ==
  /\ LET r == getRelatedDocuments(index, id, limit)
     IN  resp' = [NoResp EXCEPT !.op = "related", !.id = id, !.limit = limit,
                    !.threw = r.threw, !.scored = r.scored, !.out = r.out]
  /\ UNCHANGED <<disk, index, calls, server>>

\* a caller runs getDocument(id) on this.index
GetDocument(id) ==
  /\ resp' = [NoResp EXCEPT !.op = "getDocument", !.id = id,
                !.found = getDocument(index, id)]
  /\ UNCHANGED <<disk, index, calls, server>>

\* a caller runs getCategories() on this.index
GetCategories ==
  /\ resp' = [NoResp EXCEPT !.op = "getCategories", !.out = getCategories(index)]
  /\ UNCHANGED <<disk, index, calls, server>>

\* a caller runs getTags() on this.index
GetTags ==
  /\ resp' = [NoResp EXCEPT !.op = "getTags", !.out = getTags(index)]
  /\ UNCHANGED <<disk, index, calls, server>>

\* the server answers a get_document request
ToolGetDocument(id) ==
  /\ LET r == get_document(index, id)
     IN  resp' = [NoResp EXCEPT !.op = "get_document", !.id = id,
                    !.error = r.error, !.found = r.found]
  /\ UNCHANGED <<disk, index, calls, server>>

\* the server answers a get_related_docs request
ToolGetRelatedDocs(id, limit) ==
  /\ LET r == getRelatedDocs(index, id, limit)
     IN  resp' = [NoResp EXCEPT !.op = "get_related_docs", !.id = id,
                    !.limit = limit, !.error = r.error, !.out = r.out]
  /\ UNCHANGED <<disk, index, calls, server>>

\* the server answers a search_docs request
ToolSearchDocs(query, category, tags, limit) ==
  /\ LET r == searchDocs(index, query, category, tags, limit)
     IN  resp' = [NoResp EXCEPT !.op = "search_docs", !.query = query,
                    !.category = category, !.tags = tags,
                    !.limit = limitOrDefault(limit), !.error = r.error,
                    !.out = r.out, !.total = r.total]
  /\ UNCHANGED <<disk, index, calls, server>>

\* the server answers a list_categories request
ToolListCategories ==
  /\ resp' = [NoResp EXCEPT !.op = "list_categories",
                !.out = listCategories(index).out,
                !.total = listCategories(index).total]
  /\ UNCHANGED <<disk, index, calls, server>>

\* the server answers a list_tags request
ToolListTags ==
  /\ resp' = [NoResp EXCEPT !.op = "list_tags", !.out = listTags(index).out,
                !.total = listTags(index).total]
  /\ UNCHANGED <<disk, index, calls, server>>

\* start(), lines 374-385: the check of the documentation directory, which
\* warns and goes on whatever it finds
ServerStart ==
  /\ server = "new"
  /\ server' = "starting"
  /\ resp' = NoResp
  /\ UNCHANGED <<disk, index, calls>>

\* start(), line 388: buildIndex() is called
ServerBuildIndex ==
  /\ server = "starting"
  /\ StartBuild(1)

\* a step of the build start() awaits
ServerBuildStep ==
  /\ server = "starting"
  /\ FindFiles(1) \/ IndexFile(1) \/ FinishBuild(1)

\* start() connecting the transport while its build is still under way
ServerConnectEarly ==
  /\ server = "starting"
  /\ calls[1].pc # "idle"
  /\ server' = "running"
  /\ resp' = NoResp
  /\ UNCHANGED <<disk, index, calls>>

\* start(), lines 388-393: the awaited build has completed and the transport
\* is connected, from where on requests are delivered to the handler
ServerConnect ==
  /\ server = "starting"
  /\ calls[1].pc = "done"
  /\ server' = "running"
  /\ resp' = NoResp
  /\ UNCHANGED <<disk, index, calls>>

\* lines 397-401: the awaited build has thrown, start() rejects and the
\* process exits
ServerFatal ==
  /\ server = "starting"
  /\ calls[1].pc = "failed"
  /\ server' = "exited"
  /\ resp' = NoResp
  /\ UNCHANGED <<disk, index, calls>>

\* lines 54-57: SIGINT closes the server and exits the process
ServerSigint ==
  /\ server \in {"starting", "running"}
  /\ server' = "exited"
  /\ resp' = NoResp
  /\ UNCHANGED <<disk, index, calls>>

\* lines 65-106: a CallToolRequest reaches the handler of a connected server
CallTool(query, category, tags, id, limit) ==
  /\ server = "running"
  /\ \/ ToolSearchDocs(query, category, tags, limit)
     \/ ToolGetDocument(id)
     \/ ToolGetRelatedDocs(id, limitOrDefault(limit))
     \/ ToolListCategories
     \/ ToolListTags

\* a call's position, and what the claims need to know of its course: the
\* index it found, whether another call was in progress when it started,
\* whether it found the root unreadable, the files whose read failed, and
\* the index it left
IdleCall ==
  [pc |-> "idle", files |-> <<>>, pos |-> 0, before |-> EmptyIndex,
   overlapped |-> FALSE, rootFailed |-> FALSE, skipped |-> {},
   after |-> EmptyIndex]

------------------------------------------------------------------------------
(* The corpora and the query inputs the specifications draw from *)

pA == <<"a",".","m","d">>
pB == <<"g","/","b",".","m","d">>
pC == <<"g","/","c",".","m","d">>
pD == <<"h","/","d",".","m","d">>
pNotes == <<"n","o","t","e","s",".","t","x","t">>
CorpusPaths == <<pA, pB, pC, pD>>

wAuth == <<"a","u","t","h">>
wAuthCap == <<"A","u","t","h">>
wApi == <<"a","p","i">>
wX == <<"x">>
wY == <<"y">>
tAuthApi == <<"A","u","t","h"," ","A","P","I">>
bGuide == <<"#"," ","G","u","i","d","e","\n","\n","S","e","e"," ","t","h","e"," ","a","u","t","h"," ","g","u","i","d","e"," ","f","o","r"," ","t","h","e"," ","a","p","i",".","\n","\n","m","d">>
bApi == <<"T","h","e"," ","a","p","i"," ","m","d">>
qAuthApi == <<"A","u","t","h"," ","a","p","i">>
qNone == <<"?","!">>
qApi == <<"a","p","i">>
qApiApi == <<"a","p","i"," ","a","p","i">>

NoFrontmatter ==
  [title |-> Absent, tags |-> Absent, category |-> Absent, related |-> Absent,
   summary |-> Absent]

PlainFile(i) ==
  [path |-> CorpusPaths[i], readable |-> TRUE,
   fm |-> [NoFrontmatter EXCEPT !.tags = List(<<wAuth, wApi>>)],
   body |-> IF i % 2 = 1 THEN bGuide ELSE bApi]

NotesFile ==
  [path |-> pNotes, readable |-> TRUE, fm |-> NoFrontmatter, body |-> bApi]

\* the file sequences whose file i is drawn from pool[i], in readdir order
RECURSIVE FileSeqs(_, _)
FileSeqs(pool, n) ==
  IF n = 0 THEN {<<>>}
  ELSE {Append(fs, f) : fs \in FileSeqs(pool, n - 1), f \in pool[n]}

\* the disks over those files, plus a file that is no markdown file
Disks(pool) ==
  {[rootOk |-> TRUE, denied |-> {}, files |-> fs \o <<NotesFile>>] :
     fs \in FileSeqs(pool, NumFiles)}

InitOnDisks(disks) ==
  /\ disk \in disks
  /\ index = EmptyIndex
  /\ calls = [c \in Calls |-> IdleCall]
  /\ resp = NoResp
  /\ server = "new"

InitOn(pool) == InitOnDisks(Disks(pool))

------------------------------------------------------------------------------
(* Spec: buildIndex() calls one after the other over a corpus whose files    *)
(* may be unreadable and whose root may come and go, with queries in between *)

SmallPool ==
  [i \in 1..Len(CorpusPaths) |->
     {[PlainFile(i) EXCEPT !.readable = r] : r \in BOOLEAN}]


\* the directory g of the corpus, readable or not
dirG == <<"g">>

Init ==
  InitOnDisks({[d EXCEPT !.denied = dn] : d \in Disks(SmallPool),
                                           dn \in {{}, {dirG}}})

Next ==
  \/ \E c \in Calls : NoneInProgress /\ StartBuild(c)
  \/ \E c \in Calls : FindFiles(c)
  \/ \E c \in Calls : IndexFile(c)
  \/ \E c \in Calls : FinishBuild(c)
  \/ \E ok \in BOOLEAN : SetRoot(ok)
  \/ \E q \in {qAuthApi}, t \in {Absent, List(<<wAuth>>)} : Search(q, Absent, t)
  \/ \E id \in {pA, pB}, limit \in {1, DefaultLimit} : Related(id, limit)

Spec == Init /\ [][Next]_vars

------------------------------------------------------------------------------
(* What one uninterrupted buildIndex() makes of a disk *)

RECURSIVE indexAll(_, _, _)
indexAll(idx, d, files) ==
  IF files = <<>> THEN idx
  ELSE indexAll(indexDocument(idx, ReadFile(d, Head(files))), d, Tail(files))

FullBuild(d) == finishBuild(indexAll(EmptyIndex, d, findMarkdownFiles(d))).idx

\* the call started last, 0 before the first one
LastStarted ==
  IF \A c \in Calls : calls[c].pc = "idle" THEN 0
  ELSE CHOOSE c \in Calls :
         calls[c].pc # "idle" /\ \A b \in Calls : b > c => calls[b].pc = "idle"

\* this.index is a snapshot a buildIndex() call completed
Built == LastStarted # 0 /\ calls[LastStarted].pc = "done"

------------------------------------------------------------------------------
(* SpecSearch: one build of a corpus whose titles, tags and categories vary, *)
(* and searches at every point of it                                         *)

SearchFiles(i) ==
  {[PlainFile(i) EXCEPT !.body = bApi, !.fm.title = ti, !.fm.tags = tg,
                        !.fm.category = ca] :
     ti \in {Absent, Str(tAuthApi)},
     tg \in {List(<<wAuthCap, wApi>>), List(<<wAuth, wApi>>), Str(wAuth)},
     ca \in {Absent, Str(wApi), Str(<<>>)}}

ExtraFiles(i) ==
  {[PlainFile(i) EXCEPT !.body = bApi, !.fm.category = ca] :
     ca \in {Absent, Str(wApi)}}

SearchPool ==
  [i \in 1..Len(CorpusPaths) |-> IF i <= 2 THEN SearchFiles(i) ELSE ExtraFiles(i)]

InitSearch == InitOn(SearchPool)

NextSearch ==
  \/ StartBuild(1)
  \/ FindFiles(1)
  \/ IndexFile(1)
  \/ FinishBuild(1)
  \/ \E q \in {qAuthApi, qNone}, ca \in {Absent, Str(wApi), Str(<<>>)},
        t \in {Absent, List(<<wAuth, wApi>>)} : Search(q, ca, t)

SpecSearch == InitSearch /\ [][NextSearch]_vars

------------------------------------------------------------------------------
(* SpecRel: one build of a corpus whose related lists, links, tags and       *)
(* categories vary, and related-document queries at every point of it        *)

rDotA == <<".","/","a",".","m","d">>
rAbsB == <<"/","d","/","g","/","b",".","m","d">>
bLinkA == <<"S","e","e"," ","[","x","]","(",".",".","/","a",".","m","d",")">>

RelFiles(i) ==
  {[PlainFile(i) EXCEPT !.body = b, !.fm.related = re, !.fm.tags = tg,
                        !.fm.category = ca] :
     b \in {bApi, bLinkA},
     re \in {Absent, List(<<rDotA>>), List(<<rAbsB>>)},
     tg \in {List(<<wX, wY>>), List(<<wX, wX>>), List(<<wX>>)},
     ca \in {Absent, Str(wApi)}}

RelPool ==
  [i \in 1..Len(CorpusPaths) |-> IF i <= 2 THEN RelFiles(i) ELSE ExtraFiles(i)]

InitRel == InitOn(RelPool)

NextRel ==
  \/ StartBuild(1)
  \/ FindFiles(1)
  \/ IndexFile(1)
  \/ FinishBuild(1)
  \/ \E id \in {pA, pB}, limit \in {0, 1, DefaultLimit} : Related(id, limit)

SpecRel == InitRel /\ [][NextRel]_vars

------------------------------------------------------------------------------
(* SpecApi: one build of a corpus whose tags and categories vary, and every *)
(* query of the indexer and every document tool of the server at every      *)
(* point of it                                                              *)

ApiFiles(i) ==
  {[PlainFile(i) EXCEPT !.body = bApi, !.fm.tags = tg, !.fm.category = ca] :
     tg \in {Absent, List(<<wAuth, wApi>>)},
     ca \in {Absent, Str(wApi)}}

ApiPool == [i \in 1..Len(CorpusPaths) |-> ApiFiles(i)]

\* ids: two paths of the corpus, a path that is no document, the empty string
ApiIds == {pA, pB, pNotes}

InitApi == InitOn(ApiPool)

NextApi ==
  \/ StartBuild(1)
  \/ FindFiles(1)
  \/ IndexFile(1)
  \/ FinishBuild(1)
  \/ \E q \in {qAuthApi, qApi, qApiApi} : Search(q, Absent, Absent)
  \/ \E id \in ApiIds, limit \in {1, DefaultLimit} : Related(id, limit)
  \/ \E id \in ApiIds : GetDocument(id)
  \/ GetCategories
  \/ GetTags
  \/ \E id \in ApiIds \cup {<<>>} : ToolGetDocument(id)
  \/ \E id \in ApiIds \cup {<<>>}, limit \in {1, DefaultLimit} :
       ToolGetRelatedDocs(id, limit)

SpecApi == InitApi /\ [][NextApi]_vars

------------------------------------------------------------------------------
(* SpecFaults: buildIndex() calls one after the other over a corpus that    *)
(* does not change, whose root and files may be unreadable and whose tags   *)
(* may be a number in place of a list                                       *)

FaultFiles(i) ==
  {[PlainFile(i) EXCEPT !.body = bApi, !.readable = r, !.fm.tags = tg] :
     r \in BOOLEAN,
     tg \in {List(<<wAuth, wApi>>), Num}}

FaultPool == [i \in 1..Len(CorpusPaths) |-> FaultFiles(i)]

InitFaults ==
  InitOnDisks({[d EXCEPT !.rootOk = ok] : d \in Disks(FaultPool), ok \in BOOLEAN})

NextFaults ==
  \/ \E c \in Calls : NoneInProgress /\ StartBuild(c)
  \/ \E c \in Calls : FindFiles(c)
  \/ \E c \in Calls : IndexFile(c)
  \/ \E c \in Calls : FinishBuild(c)
  \/ \E q \in {qAuthApi} : Search(q, Absent, Absent)
  \/ \E id \in {pA, pB} : Related(id, DefaultLimit)

SpecFaults == InitFaults /\ [][NextFaults]_vars

------------------------------------------------------------------------------
(* SpecSkips: one build of a corpus some of whose files cannot be read and  *)
(* whose subdirectory g may not be listable, and queries at every point     *)

SkipFiles(i) ==
  {[PlainFile(i) EXCEPT !.body = bApi, !.readable = r, !.fm.category = ca] :
     r \in BOOLEAN, ca \in {Absent, Str(wApi)}}

SkipPool == [i \in 1..Len(CorpusPaths) |-> SkipFiles(i)]

InitSkips ==
  InitOnDisks({[d EXCEPT !.denied = dn] : d \in Disks(SkipPool),
                                           dn \in {{}, {dirG}}})

NextSkips ==
  \/ StartBuild(1)
  \/ FindFiles(1)
  \/ IndexFile(1)
  \/ FinishBuild(1)
  \/ Search(qAuthApi, Absent, Absent)
  \/ \E id \in {pA, pB} : Related(id, DefaultLimit)

SpecSkips == InitSkips /\ [][NextSkips]_vars

------------------------------------------------------------------------------
(* SpecMeta: one build of a corpus whose frontmatter gives tags, related    *)
(* and category as lists, strings, numbers or not at all, and queries at    *)
(* every point of it                                                        *)

MetaFiles(i) ==
  IF i = 1
    THEN {[PlainFile(i) EXCEPT !.body = bApi, !.fm.tags = tg,
                               !.fm.related = re, !.fm.category = ca] :
            tg \in {Absent, List(<<wAuth, wApi>>), Str(wAuth), Num},
            re \in {Absent, List(<<pD>>), Str(pA)},
            ca \in {Absent, Str(<<>>)}}
    ELSE {[PlainFile(i) EXCEPT !.body = bApi, !.fm.tags = tg,
                               !.fm.category = ca] :
            tg \in {Absent, List(<<wAuthCap, wApi>>), List(<<wAuth, wApi>>)},
            ca \in {Absent, Str(wApi)}}

MetaPool == [i \in 1..Len(CorpusPaths) |-> MetaFiles(i)]

InitMeta == InitOn(MetaPool)

NextMeta ==
  \/ StartBuild(1)
  \/ FindFiles(1)
  \/ IndexFile(1)
  \/ FinishBuild(1)
  \/ \E q \in {qAuthApi, qNone}, t \in {Absent, List(<<wAuth>>)} :
       Search(q, Absent, t)
  \/ GetCategories
  \/ GetTags

SpecMeta == InitMeta /\ [][NextMeta]_vars

------------------------------------------------------------------------------
(* SpecServer: the DocsServer process from its construction on, over a    *)
(* corpus that does not change, with or without categories, whose tags    *)
(* may be a number in place of a list: start(), the build it awaits, and  *)
(* the tool requests                                                      *)

ServerFiles(i) ==
  {[PlainFile(i) EXCEPT !.body = bApi, !.fm.tags = tg, !.fm.category = ca] :
     tg \in {List(<<wAuth, wApi>>), Num}, ca \in {Absent, Str(wApi)}}

ServerPool == [i \in 1..Len(CorpusPaths) |-> ServerFiles(i)]

ServerLimits == {NoLimit, Limit(-1), Limit(0), Limit(1)}

InitServer == InitOn(ServerPool)

NextServer ==
  \/ ServerStart
  \/ ServerBuildIndex
  \/ ServerBuildStep
  \/ ServerConnect
  \/ ServerFatal
  \/ ServerSigint
  \/ \E q \in {qApi, <<>>}, ca \in {Absent, Str(wApi)},
        t \in {Absent, List(<<wAuth>>)}, id \in {pA, pD}, l \in ServerLimits :
          CallTool(q, ca, t, id, l)

SpecServer == InitServer /\ [][NextServer]_vars

------------------------------------------------------------------------------
(* SpecOverlap: buildIndex() calls that need not wait for one another, over *)
(* a corpus that does not change                                            *)

OverlapFiles(i) ==
  {[PlainFile(i) EXCEPT !.body = bApi, !.fm.category = ca] :
     ca \in {Absent, Str(wApi)}}

OverlapPool == [i \in 1..Len(CorpusPaths) |-> OverlapFiles(i)]

InitOverlap == InitOn(OverlapPool)

NextOverlap ==
  \/ \E c \in Calls : StartBuild(c)
  \/ \E c \in Calls : FindFiles(c)
  \/ \E c \in Calls : IndexFile(c)
  \/ \E c \in Calls : FinishBuild(c)
  \/ \E q \in {qAuthApi} : Search(q, Absent, Absent)
  \/ \E id \in {pA, pB} : Related(id, DefaultLimit)

SpecOverlap == InitOverlap /\ [][NextOverlap]_vars

------------------------------------------------------------------------------
(* Claims *)

Docs == Range(index.documents)
Returned == Range(resp.out)
Rel(p) == IF p \in DOMAIN index.relationships
            THEN Range(index.relationships[p]) ELSE {}
TagSet(doc) == IF isArray(doc.metadata.tags) THEN Range(doc.metadata.tags.l) ELSE {}

\* C1: a query answered while a buildIndex() call is in progress reads either
\* the snapshot that call found when it started or the complete snapshot an
\* uninterrupted build of the corpus produces, never an empty or partly
\* populated one.
C1_QueriesSeeCompleteSnapshots ==
  \A c \in Calls :
    (resp.op # "none" /\ InProgress(c)) =>
      index \in {calls[c].before, FullBuild(disk)}

\* C2: a buildIndex() call that found the root directory inaccessible
\* publishes nothing: once it has ended, this.index is the snapshot that was
\* active before the call.
C2_FailedBuildKeepsSnapshot ==
  (LastStarted # 0 /\ Finished(LastStarted) /\ calls[LastStarted].rootFailed) =>
    index = calls[LastStarted].before

\* C3 as stated: whatever category is passed as the filter, the empty string
\* included, search returns no document of another category.
C3_AnyCategoryFilterExcludes ==
  (resp.op = "search" /\ resp.category # Absent) =>
    \A p \in Returned : GetDoc(index, p).metadata.category = resp.category

\* C3 as amended: when a non-empty category is passed as the filter, search
\* returns no document whose category differs from it.
C3_CategoryFilterExcludes ==
  (resp.op = "search" /\ resp.category.k = "str" /\ resp.category.s # <<>>) =>
    \A p \in Returned : GetDoc(index, p).metadata.category = resp.category

\* a search with a category filter returned a document and left out a
\* document of another category that the same search without the filter returns
C3_Witness ==
  /\ resp.op = "search" /\ resp.category = Str(wApi)
  /\ Returned # {}
  /\ \E p \in Range(search(index, resp.query, Absent, resp.tags).out) :
       /\ p \notin Returned
       /\ GetDoc(index, p).metadata.category # resp.category

\* C4: search returns a document only if every required tag is an element of
\* the document's tag list, compared as exact strings.
C4_RequiredTagsAreElements ==
  (resp.op = "search" /\ isArray(resp.tags)) =>
    \A p \in Returned :
      LET doc == GetDoc(index, p)
      IN  /\ resp.tags.l # <<>> => isArray(doc.metadata.tags)
          /\ \A i \in 1..Len(resp.tags.l) : resp.tags.l[i] \in TagSet(doc)

\* a search with required tags returned a document and left out one that has
\* only a differently-cased form of a required tag and that the same search
\* without required tags returns
C4_Witness ==
  /\ resp.op = "search" /\ isArray(resp.tags) /\ resp.tags.l # <<>>
  /\ Returned # {}
  /\ \E p \in Range(search(index, resp.query, resp.category, Absent).out) :
       /\ p \notin Returned
       /\ wAuthCap \in TagSet(GetDoc(index, p))

\* the total the claim gives a document for a query: per token, 1 for the
\* keyword entry, the TF-IDF weight, 5 for the title, 3 for a tag
ClaimedScore(doc, query) ==
  LET tokens == tokenize(toLowerCase(query))
      perToken(t) ==
          (IF t \in DOMAIN index.keywords /\ doc.path \in index.keywords[t]
             THEN 1000 ELSE 0)
        + (IF doc.path \in DOMAIN index.tfidf /\ t \in DOMAIN index.tfidf[doc.path]
             THEN index.tfidf[doc.path][t] ELSE 0)
        + (IF includes(toLowerCase(Text(doc.metadata.title)), t) THEN 5000 ELSE 0)
        + (IF \E tag \in Range(Elements(doc.metadata.tags)) :
                includes(toLowerCase(tag), t)
             THEN 3000 ELSE 0)
  IN  SumSeq([i \in 1..Len(tokens) |-> perToken(tokens[i])])

\* C5: every document that passes the filters is returned if and only if its
\* claimed total is greater than 0, and is ranked with that total.
C5_ScoreIsSumOfSignals ==
  resp.op = "search" =>
    \A doc \in Docs :
      (passesCategory(doc, resp.category) /\ passesTags(doc, resp.tags)) =>
        /\ doc.path \in Returned <=> ClaimedScore(doc, resp.query) > 0
        /\ \A i \in 1..Len(resp.scored) :
             resp.scored[i].path = doc.path =>
               resp.scored[i].score = ClaimedScore(doc, resp.query)

Position(p) == CHOOSE i \in 1..Len(index.documents) : index.documents[i].path = p

\* C6: search returns the surviving documents, each once, in descending
\* order of score, documents of equal score in the order of their insertion
\* into the snapshot.
C6_DescendingThenInsertionOrder ==
  (resp.op = "search" /\ ~resp.threw) =>
    /\ Returned = {doc.path : doc \in {d \in Docs :
                     /\ passesCategory(d, resp.category)
                     /\ passesTags(d, resp.tags)
                     /\ ClaimedScore(d, resp.query) > 0}}
    /\ \A i, j \in 1..Len(resp.scored) :
         i < j =>
           /\ resp.scored[i].path # resp.scored[j].path
           /\ resp.scored[i].score >= resp.scored[j].score
           /\ resp.scored[i].score = resp.scored[j].score =>
                Position(resp.scored[i].path) < Position(resp.scored[j].path)

\* a search returned two documents of equal score
C6_Witness ==
  /\ resp.op = "search" /\ ~resp.threw /\ Len(resp.scored) >= 2
  /\ resp.scored[1].score = resp.scored[2].score

\* a search returned a later-inserted document ahead of an earlier one
C6_WitnessReordered ==
  /\ resp.op = "search" /\ ~resp.threw /\ Len(resp.scored) >= 2
  /\ Position(resp.scored[1].path) > Position(resp.scored[2].path)

\* d1's related list holds a path that normalizes to d2's path
Declares(d1, d2) ==
  /\ isArray(d1.metadata.related)
  /\ \E i \in 1..Len(d1.metadata.related.l) :
       normalizePath(d1.metadata.related.l[i]) = d2.path

\* d1's body holds a markdown link whose target normalizes to d2's path
Links(d1, d2) ==
  \E t \in Range(linkTargets(d1.content, 1)) : normalizePath(t) = d2.path

SameNonEmptyCategory(d1, d2) ==
  /\ d1.metadata.category = d2.metadata.category
  /\ d1.metadata.category.k = "str" /\ d1.metadata.category.s # <<>>

ShareTwoTags(d1, d2) == Cardinality(TagSet(d1) \cap TagSet(d2)) >= 2

\* C7: in a built snapshot no document is in its own relationship set, and
\* getRelatedDocuments(id, limit) never returns id.
C7_NoSelfLoops ==
  Built =>
    /\ \A doc \in Docs : doc.path \notin Rel(doc.path)
    /\ resp.op = "related" => resp.id \notin Returned

\* C8: in a built snapshot two distinct documents whose tag sets share at
\* least 2 tags are in each other's relationship set, and a document that no
\* other rule relates to another one is not related to it when their tag sets
\* share fewer than 2 tags.
C8_SharedTagsCountDistinct ==
  Built =>
    \A d1, d2 \in Docs :
      d1.path # d2.path =>
        /\ ShareTwoTags(d1, d2) =>
             d2.path \in Rel(d1.path) /\ d1.path \in Rel(d2.path)
        /\ (/\ ~ShareTwoTags(d1, d2)
            /\ ~SameNonEmptyCategory(d1, d2)
            /\ ~Declares(d1, d2) /\ ~Links(d1, d2)) =>
             d2.path \notin Rel(d1.path)

\* C9: in a built snapshot two distinct documents of the same non-empty
\* category are in each other's relationship set.
C9_SameCategoryRelatedBothWays ==
  Built =>
    \A d1, d2 \in Docs :
      (d1.path # d2.path /\ SameNonEmptyCategory(d1, d2)) =>
        d2.path \in Rel(d1.path) /\ d1.path \in Rel(d2.path)

\* a built snapshot holds two documents of one category that share fewer than
\* 2 tags and neither declare nor link to each other, each related to the other
C9_Witness ==
  /\ Built
  /\ \E d1, d2 \in Docs :
       /\ d1.path # d2.path /\ SameNonEmptyCategory(d1, d2)
       /\ Len(sharedTags(d1, d2)) < 2 /\ Len(sharedTags(d2, d1)) < 2
       /\ ~Declares(d1, d2) /\ ~Links(d1, d2)
       /\ ~Declares(d2, d1) /\ ~Links(d2, d1)
       /\ d2.path \in Rel(d1.path) /\ d1.path \in Rel(d2.path)

\* C10: in a built snapshot a document that declares or links to another one
\* is related to it, and the other one is not related back unless they share a
\* category or 2 tags or it declares or links back.
C10_DirectedRulesNotReciprocated ==
  Built =>
    \A d1, d2 \in Docs :
      (d1.path # d2.path /\ (Declares(d1, d2) \/ Links(d1, d2))) =>
        /\ d2.path \in Rel(d1.path)
        /\ (/\ ~SameNonEmptyCategory(d1, d2)
            /\ ~ShareTwoTags(d1, d2)
            /\ ~Declares(d2, d1) /\ ~Links(d2, d1)) =>
             d1.path \notin Rel(d2.path)

\* the score the claim gives neighbour n of source src: 1, 2 for an equal
\* category, 1 per distinct shared tag, 5 when src declares n
ClaimedRelatedScore(src, n) ==
  1 + (IF src.metadata.category = n.metadata.category THEN 2 ELSE 0)
    + Cardinality(TagSet(src) \cap TagSet(n))
    + (IF Declares(src, n) THEN 5 ELSE 0)

\* C11: getRelatedDocuments ranks every neighbour it returns with 1, plus 2
\* for the source's category, plus the number of distinct tags it shares with
\* the source, plus 5 if a related declaration of the source normalizes to it.
C11_RelatedScoreIsSumOfBoosts ==
  (resp.op = "related" /\ ~resp.threw) =>
    \A i \in 1..Len(resp.scored) :
      resp.scored[i].score =
        ClaimedRelatedScore(GetDoc(index, resp.id),
                            GetDoc(index, resp.scored[i].path))

\* where p stands in the relationship set of id, in insertion order
RelPosition(id, p) ==
  CHOOSE i \in 1..Len(index.relationships[id]) : index.relationships[id][i] = p

Min(a, b) == IF a < b THEN a ELSE b

\* C12: for an id with recorded relationships and a limit >= 0,
\* getRelatedDocuments returns min(limit, number of neighbours) neighbours of
\* id, none twice, in descending order of score with equal scores in the
\* order of the relationship set, and no neighbour left out outranks a
\* returned one.
C12_RelatedSortedAndTruncated ==
  (resp.op = "related" /\ resp.limit >= 0 /\ Rel(resp.id) # {}) =>
    /\ ~resp.threw
    /\ Len(resp.out) = Min(resp.limit, Cardinality(Rel(resp.id)))
    /\ Returned \subseteq Rel(resp.id)
    /\ \A i, j \in 1..Len(resp.scored) :
         i < j =>
           /\ resp.scored[i].path # resp.scored[j].path
           /\ resp.scored[i].score >= resp.scored[j].score
           /\ resp.scored[i].score = resp.scored[j].score =>
                RelPosition(resp.id, resp.scored[i].path)
                  < RelPosition(resp.id, resp.scored[j].path)
    /\ \A i \in 1..Len(resp.scored) :
         resp.scored[i].score =
           relatedScore(index, resp.id, resp.scored[i].path)
    /\ \A p \in Rel(resp.id) \ Returned :
         \A i \in 1..Len(resp.scored) :
           relatedScore(index, resp.id, p) <= resp.scored[i].score

\* a query with limit 1 on an id with two neighbours of different scores
\* returned the higher-scored one, which was inserted second
C12_Witness ==
  /\ resp.op = "related" /\ resp.limit = 1 /\ ~resp.threw
  /\ Cardinality(Rel(resp.id)) = 2
  /\ Len(resp.out) = 1
  /\ RelPosition(resp.id, resp.out[1]) = 2

\* a query returned two neighbours of equal score
C12_WitnessTie ==
  /\ resp.op = "related" /\ ~resp.threw /\ Len(resp.scored) = 2
  /\ resp.scored[1].score = resp.scored[2].score

\* C13: getRelatedDocuments(id, limit) returns the empty sequence and raises
\* no error when id is no document of the snapshot or has no relationship
\* set or an empty one.
C13_NoRelationsGiveEmptyResult ==
  (resp.op = "related" /\ (~HasDoc(index, resp.id) \/ Rel(resp.id) = {})) =>
    ~resp.threw /\ resp.out = <<>>

\* a built snapshot with related documents was asked for the neighbours of a
\* path that is no document, and answered with the empty sequence
C13_Witness ==
  /\ Built /\ \E d \in Docs : Rel(d.path) # {}
  /\ resp.op = "related" /\ ~HasDoc(index, resp.id)
  /\ ~resp.threw /\ resp.out = <<>>

\* a built snapshot was asked for the neighbours of a document that has none,
\* and answered with the empty sequence
C13_WitnessKnownId ==
  /\ Built
  /\ resp.op = "related" /\ HasDoc(index, resp.id) /\ Rel(resp.id) = {}
  /\ ~resp.threw /\ resp.out = <<>>

\* the documents of the snapshot that have no related document
Unrelated == {d \in Docs : Rel(d.path) = {}}

\* C14 as stated: what getRelatedDocuments returns for an id that is no
\* document differs from what it returns for a document without related
\* documents.
C14_UnknownIdNeverAnEmptyResult ==
  (resp.op = "related" /\ ~HasDoc(index, resp.id)) =>
    \A d \in Unrelated :
      LET r == getRelatedDocuments(index, d.path, resp.limit)
      IN  <<r.threw, r.out>> # <<resp.threw, resp.out>>

\* C14 as amended: getDocument returns undefined exactly for the ids that are
\* no document; the get_document and get_related_docs tools answer a
\* non-empty id that is no document with the error "Document not found" and
\* answer no document's id with an error, so that the answer to an unknown id
\* differs from the empty result of a document without related documents.
C14_ToolsReportUnknownIds ==
  /\ resp.op = "getDocument" =>
       (resp.found = <<>> <=> ~HasDoc(index, resp.id))
  /\ resp.op \in {"get_document", "get_related_docs"} =>
       /\ resp.error = "notfound" <=> (resp.id # <<>> /\ ~HasDoc(index, resp.id))
       /\ resp.error = "none" <=> HasDoc(index, resp.id)
  /\ (resp.op = "get_related_docs" /\ ~HasDoc(index, resp.id)) =>
       \A d \in Unrelated :
         LET r == getRelatedDocs(index, d.path, resp.limit)
         IN  /\ r = [error |-> "none", out |-> <<>>]
             /\ r # [error |-> resp.error, out |-> resp.out]

\* the get_related_docs tool answered "not found" for a path that is no
\* document of a built snapshot in which some document has no related one
C14_Witness ==
  /\ Built /\ Unrelated # {}
  /\ resp.op = "get_related_docs" /\ resp.id = pNotes
  /\ resp.error = "notfound"

\* what the query recorded in r returns on index idx
AnswerTo(idx, r) ==
  CASE r.op = "search" ->
         LET a == search(idx, r.query, r.category, r.tags)
         IN  [NoResp EXCEPT !.op = "search", !.query = r.query,
                !.category = r.category, !.tags = r.tags,
                !.threw = a.threw, !.scored = a.scored, !.out = a.out]
    [] r.op = "related" ->
         LET a == getRelatedDocuments(idx, r.id, r.limit)
         IN  [NoResp EXCEPT !.op = "related", !.id = r.id, !.limit = r.limit,
                !.threw = a.threw, !.scored = a.scored, !.out = a.out]
    [] r.op = "getDocument" ->
         [NoResp EXCEPT !.op = "getDocument", !.id = r.id,
            !.found = getDocument(idx, r.id)]
    [] r.op = "getCategories" ->
         [NoResp EXCEPT !.op = "getCategories", !.out = getCategories(idx)]
    [] r.op = "getTags" ->
         [NoResp EXCEPT !.op = "getTags", !.out = getTags(idx)]
    [] OTHER -> r

IndexerQueries == {"search", "related", "getDocument", "getCategories", "getTags"}

\* C19: a step that answers search, getRelatedDocuments, getDocument,
\* getCategories or getTags leaves every structure of this.index as it was,
\* and the answer is what the query returns on that index, whatever queries
\* were answered before.
C19_QueriesAreReadOnly ==
  [][resp'.op \in IndexerQueries =>
      (index' = index /\ resp' = AnswerTo(index, resp'))]_vars

\* getTags was answered on a built snapshot that has tags
C19_Witness ==
  Built /\ resp.op = "getTags" /\ Len(resp.out) = 2

\* the paths registered in some Set of the Map m
Registered(m) == UNION {m[k] : k \in DOMAIN m}

\* the document is in documents and under each of its keyword tokens, its
\* category and each of its tags
FullyIndexed(doc) ==
  /\ \A t \in Range(tokenize(toLowerCase(DocText(doc)))) :
       Len(t) > 2 => t \in DOMAIN index.keywords /\ doc.path \in index.keywords[t]
  /\ Truthy(doc.metadata.category) =>
       /\ doc.metadata.category.s \in DOMAIN index.categories
       /\ doc.path \in index.categories[doc.metadata.category.s]
  /\ isArray(doc.metadata.tags)
  /\ \A t \in TagSet(doc) : t \in DOMAIN index.tags /\ doc.path \in index.tags[t]

\* C15: once a buildIndex() call has ended, every document of documents is
\* registered under every one of its keyword tokens, its category and every
\* one of its tags, and a path that is not in documents is registered in none
\* of keywords, categories and tags.
C15_FilesIndexedFullyOrNotAtAll ==
  (LastStarted # 0 /\ Finished(LastStarted)) =>
    /\ \A doc \in Docs : FullyIndexed(doc)
    /\ \A p \in Registered(index.keywords) \cup Registered(index.categories)
                  \cup Registered(index.tags) : HasDoc(index, p)

\* the files of a call's list that it read, in the order of the list
ReadBy(c) == SelectSeq(calls[c].files, LAMBDA p : p \notin calls[c].skipped)

\* the index an uninterrupted build over the files of d with paths ps makes
BuildOver(d, ps) ==
  finishBuild(indexAll(EmptyIndex, [d EXCEPT !.rootOk = TRUE], ps)).idx

\* C16: a buildIndex() call in which reading a file or a subdirectory failed
\* ends as completed; its snapshot holds exactly the eligible files outside
\* the unreadable subdirectories whose read succeeded, in directory order,
\* and its keyword, category, tag, TF-IDF and relationship structures are
\* those of a build over just these files.
C16_ReadFailuresAreSkipped ==
  \A c \in Calls :
    (/\ c = LastStarted /\ Finished(c) /\ ~calls[c].rootFailed
     /\ (calls[c].skipped # {} \/ disk.denied # {})) =>
      /\ calls[c].pc = "done"
      /\ Range(calls[c].files) =
           {f.path : f \in {g \in Range(disk.files) :
                              endsWith(g.path, DotMd) /\ DirOf(g.path) \notin disk.denied}}
      /\ DocPaths(index) = ReadBy(c)
      /\ DOMAIN index.tfidf = Range(ReadBy(c))
      /\ DOMAIN index.relationships = Range(ReadBy(c))
      /\ index = BuildOver(disk, ReadBy(c))

\* a completed call skipped a file whose read failed and indexed another
C16_Witness ==
  /\ LastStarted # 0 /\ calls[LastStarted].pc = "done"
  /\ calls[LastStarted].skipped # {}
  /\ index.documents # <<>>
  /\ \A p \in calls[LastStarted].skipped : ~HasDoc(index, p)

\* a completed call left out the files of an unreadable subdirectory and
\* indexed a file of the root
C16_WitnessSubdirectory ==
  /\ LastStarted # 0 /\ calls[LastStarted].pc = "done"
  /\ disk.denied = {dirG} /\ disk.rootOk
  /\ DocPaths(index) = <<pA>>

\* C17: a buildIndex() call ends in failure exactly when it found the root
\* directory unreadable.
C17_FailsOnlyForUnreadableRoot ==
  \A c \in Calls :
    Finished(c) => (calls[c].pc = "failed" <=> calls[c].rootFailed)

\* what the queries return on index idx
ResultsOn(idx) ==
  [search  |-> [t \in {Absent, List(<<wAuth>>)} |->
                  search(idx, qAuthApi, Absent, t)],
   related |-> [id \in {pA, pB} |->
                  [limit \in {1, DefaultLimit} |->
                     getRelatedDocuments(idx, id, limit)]]]

Populating(c) ==
  \/ calls[c].pc = "indexing" /\ calls[c].pos > 1
  \/ calls[c].pc = "finishing"

\* C20: no two buildIndex() calls are populating the index at the same time.
C20_OneBuildPassAtATime ==
  \A c1, c2 \in Calls : (Populating(c1) /\ Populating(c2)) => c1 = c2

\* the sequence holds the strings of S, each once, in ascending order
SortedListOf(seq, S) ==
  /\ Range(seq) = S
  /\ \A i, j \in 1..Len(seq) : i < j => LessString(seq[i], seq[j])

\* C21: getCategories() returns the category names of the documents of the
\* snapshot, each once, in ascending order, and getTags() the tag values of
\* their tag lists, each once, in ascending order.
C21_CategoriesAndTagsListed ==
  /\ resp.op = "getCategories" =>
       SortedListOf(resp.out, {doc.metadata.category.s : doc \in Docs})
  /\ resp.op = "getTags" =>
       SortedListOf(resp.out, UNION {TagSet(doc) : doc \in Docs})

\* C22: in a built snapshot every key of the keyword index and every key of
\* a document's TF-IDF map is longer than 2 characters.
C22_IndexedTokensLongerThanTwo ==
  Built =>
    /\ \A t \in DOMAIN index.keywords : Len(t) > 2
    /\ \A p \in DOMAIN index.tfidf : \A t \in DOMAIN index.tfidf[p] : Len(t) > 2

TokensOf(q) == tokenize(toLowerCase(q))

\* the queries a returned score is compared with
ComparedQueries == {qAuthApi, qApi, qApiApi, qNone}

\* every token of the query adds to the document's score
MatchesAll(doc, q) ==
  \A t \in Range(TokensOf(q)) : scoreOf(index, doc, <<t>>) > 0

\* C23 as stated: a document that matches every token of the query is
\* returned with a score at least the score it has under any query whose set
\* of tokens is a subset of the query's set of tokens.
C23_MonotoneInTokenSets ==
  (resp.op = "search" /\ ~resp.threw) =>
    \A i \in 1..Len(resp.scored), q2 \in ComparedQueries :
      LET doc == GetDoc(index, resp.scored[i].path)
      IN  (/\ Range(TokensOf(q2)) \subseteq Range(TokensOf(resp.query))
           /\ MatchesAll(doc, resp.query)) =>
            resp.scored[i].score >= scoreOf(index, doc, TokensOf(q2))

\* C23 as amended: a document is returned with a score at least the score it
\* has under any query in which no token occurs more often than in the
\* query asked.
C23_MonotoneInTokenOccurrences ==
  (resp.op = "search" /\ ~resp.threw) =>
    \A i \in 1..Len(resp.scored), q2 \in ComparedQueries :
      LET doc == GetDoc(index, resp.scored[i].path)
      IN  (\A t \in Range(TokensOf(q2)) :
             Count(TokensOf(q2), t) <= Count(TokensOf(resp.query), t)) =>
            resp.scored[i].score >= scoreOf(index, doc, TokensOf(q2))

\* a search for two tokens returned a document that matches both, with a
\* score greater than the positive score the document has for one of them
C23_Witness ==
  /\ resp.op = "search" /\ ~resp.threw /\ resp.query = qAuthApi
  /\ \E i \in 1..Len(resp.scored) :
       LET doc == GetDoc(index, resp.scored[i].path)
       IN  /\ MatchesAll(doc, resp.query)
           /\ scoreOf(index, doc, TokensOf(qApi)) > 0
           /\ resp.scored[i].score > scoreOf(index, doc, TokensOf(qApi))

\* C24: a search whose query has no token returns the empty sequence and
\* raises no error, whatever the snapshot and the filters.
C24_NoTokensGiveEmptyResult ==
  (resp.op = "search" /\ TokensOf(resp.query) = <<>>) =>
    ~resp.threw /\ resp.out = <<>>

\* C25: search_docs returns the first `limit` entries of the indexer's
\* ranking in the ranking's order, limit being 10 when the request gives
\* none: neither the number of results nor total_results exceeds limit, and
\* the results are a prefix of the ranking.
C25_SearchDocsReturnsFirstLimit ==
  (resp.op = "search_docs" /\ resp.error = "none") =>
    LET ranked == search(index, resp.query, resp.category, resp.tags).out
    IN  /\ Len(resp.out) <= resp.limit
        /\ resp.total <= resp.limit
        /\ Len(resp.out) <= Len(ranked)
        /\ resp.out = SubSeq(ranked, 1, Len(resp.out))

ToolOps ==
  {"search_docs", "get_document", "get_related_docs", "list_categories",
   "list_tags"}

\* C26: the server handles a tool request only once the buildIndex() call
\* of start() has completed, with the index as that call left it, and no
\* further buildIndex() call is ever made.
C26_RequestsOnlyAfterTheInitialBuild ==
  /\ (server = "running" \/ resp.op \in ToolOps) =>
       calls[1].pc = "done" /\ index = calls[1].after
  /\ \A c \in Calls : c > 1 => calls[c].pc = "idle"

\* a connected server answered a search_docs request with a document of the
\* completed initial build
C26_Witness ==
  /\ server = "running" /\ resp.op = "search_docs" /\ resp.out # <<>>
  /\ calls[1].pc = "done" /\ Len(index.documents) = NumFiles

\* C29: every document's metadata.tags and metadata.related are sequences,
\* the list the frontmatter gives or else the empty sequence.
C29_TagsAndRelatedAreSequences ==
  \A doc \in Docs :
    /\ isArray(doc.metadata.tags) /\ isArray(doc.metadata.related)
    /\ \A i \in 1..Len(disk.files) :
         disk.files[i].path = doc.path =>
           /\ ~isArray(disk.files[i].fm.tags) => doc.metadata.tags = List(<<>>)
           /\ ~isArray(disk.files[i].fm.related) =>
                doc.metadata.related = List(<<>>)

\* every path the index structures of idx mention is a key of documents, and
\* tfidf and relationships have an entry for every key of documents
ReferentiallyClosed(idx) ==
  LET paths == Range(DocPaths(idx))
  IN  /\ \A k \in DOMAIN idx.keywords : idx.keywords[k] \subseteq paths
      /\ \A k \in DOMAIN idx.categories : idx.categories[k] \subseteq paths
      /\ \A k \in DOMAIN idx.tags : idx.tags[k] \subseteq paths
      /\ DOMAIN idx.tfidf = paths
      /\ DOMAIN idx.relationships = paths
      /\ \A p \in DOMAIN idx.relationships :
           Range(idx.relationships[p]) \subseteq paths

\* C27: the snapshot a completed build leaves is referentially closed.
C27_CompletedBuildIsClosed ==
  \A c \in Calls :
    (calls[c].pc = "done" /\ index = calls[c].after) => ReferentiallyClosed(index)

\* a build completed over two documents, one of them naming in its related
\* list a path that is no document, and left a non-empty relationship set
C27_Witness ==
  /\ calls[1].pc = "done" /\ index = calls[1].after
  /\ Len(index.documents) = NumFiles
  /\ \E i \in 1..Len(disk.files) : disk.files[i].fm.related = List(<<pD>>)
  /\ \E p \in DOMAIN index.relationships : index.relationships[p] # <<>>
  /\ index.keywords # << >> /\ index.tags # << >>

\* C28: once two buildIndex() calls that overlapped have both finished,
\* this.index equals the snapshot one uninterrupted buildIndex() produces
\* over the same corpus.
C28_OverlappingBuildsConverge ==
  ((\E c \in Calls : calls[c].overlapped) /\ (\A c \in Calls : Finished(c))) =>
    index = FullBuild(disk)

====
